---- MODULE Spec2Model ----
(***************************************************************************)
(* Particle life: the uniform-grid neighbourhood index (query_accel.rs),   *)
(* the fixed-step and the variable-timestep integrators (newton.rs) and    *)
(* the per-frame driver (client.rs).                                       *)
(*                                                                         *)
(* Numbers.  The program computes in f32.  Here every f32 value lies on an *)
(* integer grid (one grid step = one unit of length, of time, of force)    *)
(* and every operation that can leave the grid (division, square root)     *)
(* rounds to the nearest grid value, ties to even, as f32 does to its own  *)
(* grid.  NaN is a value of its own and propagates through arithmetic.     *)
(***************************************************************************)
EXTENDS Integers, Sequences, FiniteSets, TLC

VARIABLES
    state,      \* SimState: pos, vel, accel, colors, query (the QueryAccelerator)
    cfg,        \* SimConfig: the behaviour matrix
    newton,     \* NewtonConfig / NewtonVariableConfig: dt, damping, max_steps
    panicked,   \* an unwrap() failed: the program has aborted
    vd,         \* locals of newton_step_variable_dt: time, pq, and where it stands
    client,     \* ClientState: pause, integrator, particle_count, constrain_2d
    hist        \* history: what the last operation was called with and started from

vars == <<state, cfg, newton, panicked, vd, client, hist>>

-----------------------------------------------------------------------------
(* Bounds of the model *)

\* particles of the index specification
NIdx == 2
\* index specification: points lie within MaxCoord grid steps of the origin
MaxCoord == 1
\* index specification: the cell radius is one of 1..MaxRadius
MaxRadius == 2
\* particles of the integrator specifications
N == 3
\* damping rates are the multiples of 1/DampUnit below 1
DampUnit == 2
\* time steps dt are 1..MaxDt
MaxDt == 2
\* frames stepped in one behaviour
MaxFrames == 2
\* widget events in one behaviour
MaxUi == 2
\* variable-step specification: the frame dt is one of 1..MaxVarDt ticks
MaxVarDt == 5
\* variable-step specification: max_steps is one of 1..MaxSteps
MaxSteps == 3
\* Monte-Carlo specification: probabilities and draws are multiples of 1/ProbUnit
ProbUnit == 2
\* Monte-Carlo specification: the temperature is one of 1..MaxTemp
MaxTemp == 2
\* Monte-Carlo specification: calls of Sim::step in one behaviour
MaxMcSteps == 2
\* force specification: distances are 0..MaxForceDist
MaxForceDist == 34

-----------------------------------------------------------------------------
(* f32 on the integer grid *)

NaN == -(2^24)

\* +infinity: above every grid value the model reaches; it is only compared
Inf == 2^24

IsNaN(a) == a = NaN

Abs(a) == IF a < 0 THEN -a ELSE a

FAdd(a, b) == IF IsNaN(a) \/ IsNaN(b) THEN NaN ELSE a + b

FSub(a, b) == IF IsNaN(a) \/ IsNaN(b) THEN NaN ELSE a - b

FMul(a, b) == IF IsNaN(a) \/ IsNaN(b) THEN NaN ELSE a * b

\* a / b for b > 0, rounded to the nearest grid value, ties to even
RoundDiv(a, b) ==
    LET q == a \div b
        r == a % b
    IN  IF 2 * r < b THEN q
        ELSE IF 2 * r > b THEN q + 1
        ELSE IF q % 2 = 0 THEN q ELSE q + 1

\* a / b: 0/0 is NaN; a nonzero value over zero is infinite and is not
\* representable on the grid (no operation of the model divides that way)
FDiv(a, b) ==
    IF IsNaN(a) \/ IsNaN(b) \/ b = 0 THEN NaN
    ELSE IF b > 0 THEN RoundDiv(a, b) ELSE RoundDiv(-a, -b)

\* a <= b, false when either is NaN
FLe(a, b) == ~IsNaN(a) /\ ~IsNaN(b) /\ a <= b

FLt(a, b) == ~IsNaN(a) /\ ~IsNaN(b) /\ a < b

\* the largest s in lo..hi with s*s <= a, by bisection
RECURSIVE FloorSqrtIn(_, _, _)
FloorSqrtIn(a, lo, hi) ==
    IF lo = hi THEN lo
    ELSE LET mid == (lo + hi + 1) \div 2
         IN  IF mid * mid <= a THEN FloorSqrtIn(a, mid, hi) ELSE FloorSqrtIn(a, lo, mid - 1)

\* sqrt(a) rounded to the nearest grid value
FSqrt(a) ==
    IF IsNaN(a) \/ a < 0 THEN NaN
    ELSE LET s == FloorSqrtIn(a, 0, IF a < 2^15 THEN a ELSE 2^15)
         IN  IF a - s * s > s THEN s + 1 ELSE s

-----------------------------------------------------------------------------
(* glam::Vec3 *)

Axes == 1..3

ZERO == [k \in Axes |-> 0]

VAdd(a, b) == [k \in Axes |-> FAdd(a[k], b[k])]

VSub(a, b) == [k \in Axes |-> FSub(a[k], b[k])]

VScale(a, s) == [k \in Axes |-> FMul(a[k], s)]

VDivScalar(a, s) == [k \in Axes |-> FDiv(a[k], s)]

length_squared(a) ==
    FAdd(FAdd(FMul(a[1], a[1]), FMul(a[2], a[2])), FMul(a[3], a[3]))

length(a) == FSqrt(length_squared(a))

distance_squared(a, b) == length_squared(VSub(a, b))

VIsNaN(a) == \E k \in Axes : IsNaN(a[k])

-----------------------------------------------------------------------------
(* query_accel.rs *)

\* (v / radius).floor() as i32; the cast sends NaN to 0
quantize(p, radius) ==
    [k \in Axes |-> IF IsNaN(p[k]) THEN 0 ELSE p[k] \div radius]

add(a, b) == [k \in Axes |-> a[k] + b[k]]

\* one pass of the inner for loop of combos: the odometer step from axis i on
RECURSIVE Advance(_, _, _, _, _)
Advance(dims, i, min, max, step) ==
    IF i > 3 THEN dims
    ELSE IF dims[i] < max THEN [dims EXCEPT ![i] = @ + step]
    ELSE Advance([dims EXCEPT ![i] = min], i + 1, min, max, step)

RECURSIVE CombosLoop(_, _, _, _, _)
CombosLoop(dims, acc, min, max, step) ==
    LET pushed == Append(acc, dims)
    IN  IF dims = [k \in Axes |-> max] THEN pushed
        ELSE CombosLoop(Advance(dims, 1, min, max, step), pushed, min, max, step)

combos(min, max, step) == CombosLoop([k \in Axes |-> min], <<>>, min, max, step)

\* a neighbourhood that forgets the cells below the query cell
neighborhood_Upper == combos(0, 1, 1)

neighborhood == combos(-1, 1, 1)

\* cells.entry(key).or_default().push(idx)
EntryPush(cells, key, idx) ==
    IF key \in DOMAIN cells THEN [cells EXCEPT ![key] = Append(@, idx)]
    ELSE cells @@ (key :> <<idx>>)

RECURSIVE NewLoop(_, _, _, _)
NewLoop(points, radius, idx, cells) ==
    IF idx \notin DOMAIN points THEN cells
    ELSE NewLoop(points, radius, idx + 1,
                 EntryPush(cells, quantize(points[idx], radius), idx))

\* QueryAccelerator::new
QueryAcceleratorNew(points, radius) ==
    [cells |-> NewLoop(points, radius, 0, <<>>),
     neighbors |-> neighborhood,
     radius |-> radius,
     radius_sq |-> radius * radius]

\* the filter closure of query_neighbors
NeighborFilter(q, points, query_idx, query_point, idx) ==
    LET dist == length_squared(VSub(points[idx], query_point))
    IN  idx # query_idx /\ FLe(dist, q.radius_sq)

\* QueryAccelerator::query_neighbors: the sequence the iterator yields
RECURSIVE QueryLoop(_, _, _, _, _, _)
QueryLoop(q, points, query_idx, query_point, n, acc) ==
    IF n > Len(q.neighbors) THEN acc
    ELSE LET key == add(quantize(query_point, q.radius), q.neighbors[n])
             found == IF key \in DOMAIN q.cells
                      THEN SelectSeq(q.cells[key],
                               LAMBDA idx : NeighborFilter(q, points, query_idx, query_point, idx))
                      ELSE <<>>
         IN  QueryLoop(q, points, query_idx, query_point, n + 1, acc \o found)

query_neighbors(q, points, query_idx, query_point) ==
    QueryLoop(q, points, query_idx, query_point, 1, <<>>)

\* prev_bins.iter().position(|v| *v == idx): 0 when there is none
Position(bins, idx) ==
    IF \E n \in 1..Len(bins) : bins[n] = idx
    THEN CHOOSE n \in 1..Len(bins) :
             bins[n] = idx /\ \A m \in 1..(n - 1) : bins[m] # idx
    ELSE 0

\* Vec::remove
Remove(bins, n) == SubSeq(bins, 1, n - 1) \o SubSeq(bins, n + 1, Len(bins))

\* a replace_point that drops the cell left behind when its list becomes empty
replace_point_Prune(q, idx, prev, current) ==
    LET key == quantize(prev, q.radius)
    IN  IF key \notin DOMAIN q.cells THEN [ok |-> FALSE, query |-> q]
        ELSE LET prev_idx == Position(q.cells[key], idx)
             IN  IF prev_idx = 0 THEN [ok |-> FALSE, query |-> q]
                 ELSE LET bins == Remove(q.cells[key], prev_idx)
                          removed == IF bins = <<>>
                                     THEN [k \in DOMAIN q.cells \ {key} |-> q.cells[k]]
                                     ELSE [q.cells EXCEPT ![key] = bins]
                      IN  [ok |-> TRUE,
                           query |-> [q EXCEPT !.cells =
                               EntryPush(removed, quantize(current, q.radius), idx)]]

\* a replace_point that appends to the new cell without removing from the old one
replace_point_NoRemove(q, idx, prev, current) ==
    [ok |-> TRUE,
     query |-> [q EXCEPT !.cells = EntryPush(q.cells, quantize(current, q.radius), idx)]]

\* a replace_point that skips the removal, instead of failing, when idx is not found
replace_point_Silent(q, idx, prev, current) ==
    LET key == quantize(prev, q.radius)
        found == key \in DOMAIN q.cells /\ Position(q.cells[key], idx) # 0
        removed == IF found
                   THEN [q.cells EXCEPT ![key] = Remove(@, Position(q.cells[key], idx))]
                   ELSE q.cells
    IN  [ok |-> TRUE,
         query |-> [q EXCEPT !.cells = EntryPush(removed, quantize(current, q.radius), idx)]]

\* QueryAccelerator::replace_point.  ok is false when an unwrap() panicked;
\* query is the accelerator as the call left it.
replace_point(q, idx, prev, current) ==
    LET key == quantize(prev, q.radius)
    IN  IF key \notin DOMAIN q.cells THEN [ok |-> FALSE, query |-> q]
        ELSE LET prev_idx == Position(q.cells[key], idx)
             IN  IF prev_idx = 0 THEN [ok |-> FALSE, query |-> q]
                 ELSE LET removed == [q.cells EXCEPT ![key] = Remove(@, prev_idx)]
                      IN  [ok |-> TRUE,
                           query |-> [q EXCEPT !.cells =
                               EntryPush(removed, quantize(current, q.radius), idx)]]

\* QueryAccelerator::tiles
tiles(q) == {<<key, q.cells[key]>> : key \in DOMAIN q.cells}

-----------------------------------------------------------------------------
(* The behaviour matrix *)

\* a force whose second piece rises all the way to inter_max_dist
force_Ramp(b, dist) ==
    IF FLt(dist, b.inter_threshold)
    THEN LET f == FDiv(FMul(FSub(b.inter_threshold, dist), b.default_repulse),
                       b.inter_threshold)
         IN  IF IsNaN(f) THEN NaN ELSE -f
    ELSE IF FLt(b.inter_max_dist, dist) THEN 0
    ELSE FDiv(FMul(FSub(dist, b.inter_threshold), b.inter_strength),
              FSub(b.inter_max_dist, b.inter_threshold))

\* Behaviour::force (the body kept in mcmc.rs): repulsion ramp below
\* inter_threshold, tent between inter_threshold and inter_max_dist, 0 beyond
force(b, dist) ==
    IF FLt(dist, b.inter_threshold)
    THEN LET f == FDiv(FMul(FSub(b.inter_threshold, dist), b.default_repulse),
                       b.inter_threshold)
         IN  IF IsNaN(f) THEN NaN ELSE -f
    ELSE IF FLt(b.inter_max_dist, dist) THEN 0
    ELSE LET width == FSub(b.inter_max_dist, b.inter_threshold)
             x == FSub(FMul(FSub(dist, b.inter_threshold), 2), width)
             tent == IF IsNaN(x) THEN NaN ELSE FSub(width, Abs(x))
         IN  FDiv(FMul(tent, b.inter_strength), width)

\* SimConfig::get_behaviour: the entry of the pair (a, b), rows as in config_ui
get_behaviour(c, a, b) == c.behaviours[b + a * c.type_count]

Max(set) == CHOOSE m \in set : \A x \in set : x <= m

\* SimConfig::max_interaction_radius: the largest inter_max_dist of the matrix
max_interaction_radius(c) ==
    Max({c.behaviours[n].inter_max_dist : n \in DOMAIN c.behaviours})

-----------------------------------------------------------------------------
(* newton.rs: the fixed-step integrator *)

\* diff.normalize() * f: the unit vector along diff scaled by f, rounded once;
\* a zero diff has no direction and gives NaN on every axis
NormalTimes(diff, dist, f) == [k \in Axes |-> FDiv(FMul(diff[k], f), dist)]

\* vel * (1. - damping), damping counted in steps of 1/DampUnit
Dampen(v, damping) == VDivScalar(VScale(v, DampUnit - damping), DampUnit)

RECURSIVE ForceLoop(_, _, _, _, _, _)
ForceLoop(i, st, c, found, n, f) ==
    IF n > Len(found) THEN f
    ELSE LET neighbor == found[n]
             a == st.pos[i]
             b == st.pos[neighbor]
             diff == VSub(b, a)
             dist == length(diff)
             behav == get_behaviour(c, st.colors[i], st.colors[neighbor])
             accel == NormalTimes(diff, dist, force(behav, dist))
         IN  ForceLoop(i, st, c, found, n + 1, VAdd(f, accel))

\* total_force: the sum over the neighbours the index yields for pos[i]
total_force(i, st, c) ==
    ForceLoop(i, st, c, query_neighbors(st.query, st.pos, i, st.pos[i]), 1, ZERO)

\* the body of the for loop of newton_step for particle i
NewtonBody(i, st, c, nw) ==
    LET total_accel == total_force(i, st, c)
        vel == Dampen(VAdd(st.vel[i], VScale(total_accel, nw.dt)), nw.damping)
    IN  [st EXCEPT !.vel[i] = vel,
                   !.pos[i] = VAdd(st.pos[i], VScale(vel, nw.dt))]

RECURSIVE NewtonLoop(_, _, _, _)
NewtonLoop(i, st, c, nw) ==
    IF i \notin DOMAIN st.pos THEN st
    ELSE NewtonLoop(i + 1, NewtonBody(i, st, c, nw), c, nw)

\* newton_step
newton_step(st, c, nw) == NewtonLoop(0, st, c, nw)

-----------------------------------------------------------------------------
(* newton.rs: the variable-step integrator *)

\* f32::min and f32::max: a NaN operand is ignored
FMin(a, b) == IF IsNaN(a) THEN b ELSE IF IsNaN(b) THEN a ELSE IF a < b THEN a ELSE b

FMax(a, b) == IF IsNaN(a) THEN b ELSE IF IsNaN(b) THEN a ELSE IF a > b THEN a ELSE b

\* NewtonVariableConfig::min_dt: dt / max_steps, rounded to the grid; a
\* positive dt over max_steps = 0 is +infinity
min_dt(nw) ==
    IF nw.max_steps = 0 /\ FLt(0, nw.dt) THEN Inf ELSE FDiv(nw.dt, nw.max_steps)

\* extrapolate: position and velocity of particle idx carried from its own
\* time to global_time
extrapolate(st, idx, time, global_time) ==
    LET dt == FSub(global_time, time[idx])
    IN  [pos |-> VAdd(VAdd(st.pos[idx], VScale(st.vel[idx], dt)),
                      VDivScalar(VScale(st.accel[idx], FMul(dt, dt)), 2)),
         vel |-> VAdd(st.vel[idx], VScale(st.accel[idx], dt))]

RECURSIVE DeltaLoop(_, _, _, _, _, _, _)
DeltaLoop(st, time, idx, global_time, found, n, best) ==
    IF n > Len(found) THEN best
    ELSE LET predict == extrapolate(st, found[n], time, global_time)
             distance_sq == distance_squared(predict.pos, st.pos[idx])
             rel_vel_sq == distance_squared(predict.vel, st.pos[idx])
             dt == FSqrt(FDiv(distance_sq, rel_vel_sq))
             next == IF FLt(0, rel_vel_sq) /\ ~(best.some /\ FLt(best.dt, dt))
                     THEN [some |-> TRUE, dt |-> dt]
                     ELSE best
         IN  DeltaLoop(st, time, idx, global_time, found, n + 1, next)

\* the least candidate as it is, min_dt only when there is none
calculate_delta_time_NoFloor(st, time, idx, global_time, nw) ==
    LET best == DeltaLoop(st, time, idx, global_time,
                          query_neighbors(st.query, st.pos, idx, st.pos[idx]), 1,
                          [some |-> FALSE, dt |-> 0])
    IN  IF best.some THEN best.dt ELSE min_dt(nw)

\* calculate_delta_time: the least candidate over the neighbours, not below min_dt
calculate_delta_time(st, time, idx, global_time, nw) ==
    LET best == DeltaLoop(st, time, idx, global_time,
                          query_neighbors(st.query, st.pos, idx, st.pos[idx]), 1,
                          [some |-> FALSE, dt |-> 0])
    IN  FMax(IF best.some THEN best.dt ELSE min_dt(nw), min_dt(nw))

RECURSIVE ExtrapolateLoop(_, _, _, _, _, _, _, _)
ExtrapolateLoop(i, st, c, time, global_time, found, n, f) ==
    IF n > Len(found) THEN f
    ELSE LET neighbor == found[n]
             a == st.pos[i]
             predict == extrapolate(st, neighbor, time, global_time)
             diff == VSub(predict.pos, a)
             dist == length(diff)
             behav == get_behaviour(c, st.colors[i], st.colors[neighbor])
             accel == NormalTimes(diff, dist, force(behav, dist))
         IN  ExtrapolateLoop(i, st, c, time, global_time, found, n + 1, VAdd(f, accel))

\* total_force_extrapolate
total_force_extrapolate(i, st, c, time, global_time) ==
    ExtrapolateLoop(i, st, c, time, global_time,
                    query_neighbors(st.query, st.pos, i, st.pos[i]), 1, ZERO)

\* f32::partial_cmp with unwrap_or(Equal): -1 less, 0 equal, 1 greater
PartialCmp(a, b) ==
    IF IsNaN(a) \/ IsNaN(b) THEN 0 ELSE IF a < b THEN -1 ELSE IF a > b THEN 1 ELSE 0

\* an ordering that compares self's time with other's
TimeIndexCmp_Forward(self, other) == PartialCmp(self[1], other[1])

\* Ord for TimeIndex: other's time compared with self's
TimeIndexCmp(self, other) == PartialCmp(other[1], self[1])

\* BinaryHeap::pop takes a greatest entry: the places holding one
HeapTop(pq) ==
    {k \in 1..Len(pq) : \A m \in 1..Len(pq) : TimeIndexCmp(pq[k], pq[m]) >= 0}

RemoveAt(seq, k) == SubSeq(seq, 1, k - 1) \o SubSeq(seq, k + 1, Len(seq))

\* a finite popped time used as it is
GlobalTime_Unclamped(next_time, nw) == IF next_time = Inf THEN nw.dt ELSE next_time

\* next_time.min(newton.dt)
GlobalTime(next_time, nw) == FMin(next_time, nw.dt)

\* the entry pushed again after every event, the one at the boundary included
Repush_Always(time_now, nw) == TRUE

\* the entry pushed again only while a whole least step still fits
Repush_Short(time_now, nw) == FLt(FAdd(time_now, min_dt(nw)), nw.dt)

\* global_time < newton.dt
Repush(time_now, nw) == FLt(time_now, nw.dt)

\* the body of the while loop for the popped entry (next_time, idx)
VarEvent(st, c, nw, time, next_time, idx) ==
    LET now == GlobalTime(next_time, nw)
        dt == FSub(now, time[idx])
        new_accel == total_force_extrapolate(idx, st, c, time, now)
        prev_pos == st.pos[idx]
        pos1 == VAdd(VAdd(prev_pos, VScale(st.vel[idx], dt)),
                     VDivScalar(VScale(st.accel[idx], FMul(dt, dt)), 2))
        r == replace_point(st.query, idx, prev_pos, pos1)
        vel1 == VAdd(VAdd(st.vel[idx], VScale(st.vel[idx], dt)),
                     VDivScalar(VScale(VAdd(st.accel[idx], new_accel), dt), 2))
        st1 == [st EXCEPT !.pos[idx] = pos1, !.query = r.query,
                          !.vel[idx] = vel1, !.accel[idx] = new_accel]
        time1 == [time EXCEPT ![idx] = now]
        next_dt == calculate_delta_time(st1, time1, idx, now, nw)
    IN  [ok |-> r.ok,
         st |-> IF r.ok THEN st1 ELSE [st EXCEPT !.pos[idx] = pos1],
         time |-> IF r.ok THEN time1 ELSE time,
         now |-> now,
         dt |-> dt,
         push |-> IF r.ok /\ Repush(now, nw)
                  THEN << <<FAdd(now, next_dt), idx>> >>
                  ELSE <<>>]

-----------------------------------------------------------------------------
(* mcmc.rs: Sim and the Lennard-Jones potential *)

RECURSIVE FPowi(_, _)
FPowi(a, n) == IF n = 0 THEN 1 ELSE FMul(a, FPowi(a, n - 1))

\* e^x for a whole x, in steps of 1/ProbUnit, each factor of e rounded; beyond
\* 2*ProbUnit the value no longer grows (every draw is below it already)
RECURSIVE ExpGrid(_)
ExpGrid(x) ==
    IF x = 0 THEN ProbUnit
    ELSE IF x > 2 * ProbUnit THEN ExpGrid(2 * ProbUnit)
    ELSE IF x < -(2 * ProbUnit) THEN 0
    ELSE IF x > 0 THEN RoundDiv(ExpGrid(x - 1) * 2718, 1000)
    ELSE RoundDiv(ExpGrid(x + 1) * 1000, 2718)

\* f32::exp
FExp(x) == IF IsNaN(x) THEN NaN ELSE ExpGrid(x)

\* LennardJones::eval
eval(lj, radius) ==
    FMul(4, FSub(FPowi(FDiv(lj.repulse, radius), 12), FPowi(FDiv(lj.attract, radius), 6)))

RECURSIVE EnergyLoop(_, _, _, _, _, _)
EnergyLoop(sim, rules, idx, pos, found, energy) ==
    IF found = <<>> THEN energy
    ELSE LET neighbor == Head(found)
             distance == length(VSub(sim.pos[neighbor], pos))
             potential == rules[sim.colors[idx]][sim.colors[neighbor]]
         IN  EnergyLoop(sim, rules, idx, pos, Tail(found),
                        FAdd(energy, eval(potential, distance)))

\* Sim::energy_due_to
energy_due_to(sim, rules, idx, pos) ==
    EnergyLoop(sim, rules, idx, pos, query_neighbors(sim.query, sim.pos, idx, pos), 0)

\* a commit that moves the particle and leaves the index as it was
Commit_NoPatch(sim, idx, original, candidate) ==
    [ok |-> TRUE, st |-> [sim EXCEPT !.pos[idx] = candidate]]

\* lines 160-161: the position committed, the index patched
Commit(sim, idx, original, candidate) ==
    LET r == replace_point(sim.query, idx, original, candidate)
    IN  [ok |-> r.ok, st |-> [sim EXCEPT !.pos[idx] = candidate, !.query = r.query]]

\* rng.gen_range(0.0..=1.0): both ends can be drawn
DrawRange == 0..ProbUnit

\* probability > rng.gen_range(0.0..=1.0)
Accepts(probability, draw) == FLt(draw, probability)

\* Sim::step with particle idx, the two normal samples dx, dy and the
\* uniform draw
SimStep(sim, c, idx, dx, dy, draw) ==
    LET original == sim.pos[idx]
        candidate == [original EXCEPT ![1] = FAdd(@, dx), ![2] = FAdd(@, dy)]
        old_energy == energy_due_to(sim, c.rules, idx, original)
        new_energy == energy_due_to(sim, c.rules, idx, candidate)
        delta_e == FSub(new_energy, old_energy)
        probability == FExp(FDiv(FSub(0, delta_e), c.temperature))
        accepted == Accepts(probability, draw)
        done == IF accepted THEN Commit(sim, idx, original, candidate)
                ELSE [ok |-> TRUE, st |-> sim]
    IN  [ok |-> done.ok, st |-> done.st, original |-> original, candidate |-> candidate,
         delta_e |-> delta_e, probability |-> probability, accepted |-> accepted]

-----------------------------------------------------------------------------
(* Values of the variables an operation does not use *)

NoConfig == [behaviours |-> <<>>]

NoNewton == [dt |-> 0, damping |-> 0, max_steps |-> 0]

NoLoop == [phase |-> "idle", time |-> <<>>, pq |-> <<>>, pops |-> <<>>]

NoClient == [pause |-> FALSE, integrator |-> "Newton"]

NoHist == [op |-> "none"]

-----------------------------------------------------------------------------
(* The index alone: QueryAccelerator::new, then replace_point calls *)

IdxParticles == 0..(NIdx - 1)

IndexPoints ==
    {p \in [Axes -> (-MaxCoord)..MaxCoord] : Abs(p[1]) + Abs(p[2]) + Abs(p[3]) <= MaxCoord}

IndexInit ==
    /\ \E points \in [IdxParticles -> IndexPoints], radius \in 1..MaxRadius :
           state = [pos |-> points,
                    vel |-> [i \in IdxParticles |-> ZERO],
                    accel |-> [i \in IdxParticles |-> ZERO],
                    colors |-> [i \in IdxParticles |-> 0],
                    query |-> QueryAcceleratorNew(points, radius)]
    /\ cfg = NoConfig
    /\ newton = NoNewton
    /\ panicked = FALSE
    /\ vd = NoLoop
    /\ client = NoClient
    /\ hist = NoHist

\* A caller moves particle idx to current and tells the index, naming prev as
\* the position it moved from (mcmc.rs 160-161, newton.rs 95-100).  prev is
\* the particle's position, or (a caller out of step with the index) some
\* other particle's position or the new position itself.
ReplacePointCall(idx, prev, current) ==
    /\ ~panicked
    /\ LET r == replace_point(state.query, idx, prev, current)
       IN  /\ panicked' = ~r.ok
           /\ state' = IF r.ok
                       THEN [state EXCEPT !.pos[idx] = current, !.query = r.query]
                       ELSE [state EXCEPT !.query = r.query]
    /\ hist' = [op |-> "replace_point", idx |-> idx, prev |-> prev, current |-> current]
    /\ UNCHANGED <<cfg, newton, vd, client>>

IndexNext ==
    \E idx \in IdxParticles, current \in IndexPoints :
        \E prev \in {state.pos[j] : j \in IdxParticles} \cup {current} :
            ReplacePointCall(idx, prev, current)

SpecIndex == IndexInit /\ [][IndexNext]_vars

-----------------------------------------------------------------------------
(* The fixed-step integrator, driven as ClientState::update drives it: the
   index is built from the positions, then newton_step runs *)

Particles == 0..(N - 1)

\* the behaviours of the presets: attraction beyond 2 up to 4; repulsion up to 3
Attract == [default_repulse |-> 2, inter_threshold |-> 2,
            inter_strength |-> 2, inter_max_dist |-> 4]

Repel == [default_repulse |-> 2, inter_threshold |-> 1,
          inter_strength |-> -2, inter_max_dist |-> 3]

\* SimConfig values: one type; two types with an asymmetric matrix
ConfigPresets ==
    {[type_count |-> 1, behaviours |-> (0 :> Attract)],
     [type_count |-> 2,
      behaviours |-> (0 :> Attract @@ 1 :> Repel @@ 2 :> Attract @@ 3 :> Repel)]}

\* SimState::new_uniform_cube: positions drawn from the spawn volume, types
\* over 0..type_count, velocities zero, the index built at the config's radius
NewUniformCube(c, points) ==
    [pos |-> points,
     vel |-> [i \in DOMAIN points |-> ZERO],
     accel |-> [i \in DOMAIN points |-> ZERO],
     colors |-> [i \in DOMAIN points |-> i % c.type_count],
     query |-> QueryAcceleratorNew(points, max_interaction_radius(c))]

NewtonInit ==
    /\ cfg \in ConfigPresets
    /\ \E points \in [Particles -> IndexPoints] : state = NewUniformCube(cfg, points)
    /\ \E dt \in 1..MaxDt, damping \in 0..(DampUnit - 1) :
           newton = [dt |-> dt, damping |-> damping, max_steps |-> 0]
    /\ panicked = FALSE
    /\ vd = NoLoop
    /\ client = NoClient
    /\ hist = [op |-> "none", frames |-> 0]

\* client.rs: update builds the index anew before it steps
RebuildIndex ==
    /\ hist.op = "newton_step"
    /\ hist.frames < MaxFrames
    /\ state' = [state EXCEPT !.query =
                    QueryAcceleratorNew(state.pos, max_interaction_radius(cfg))]
    /\ hist' = [op |-> "rebuild", frames |-> hist.frames]
    /\ UNCHANGED <<cfg, newton, panicked, vd, client>>

\* newton_step on the freshly built index
NewtonStepCall ==
    /\ hist.op \in {"none", "rebuild"}
    /\ hist.frames < MaxFrames
    /\ state' = newton_step(state, cfg, newton)
    /\ hist' = [op |-> "newton_step", frames |-> hist.frames + 1, pre |-> state]
    /\ UNCHANGED <<cfg, newton, panicked, vd, client>>

NewtonNext == RebuildIndex \/ NewtonStepCall

SpecNewton == NewtonInit /\ [][NewtonNext]_vars

-----------------------------------------------------------------------------
(* One call of newton_step_variable_dt, an iteration of its loop at a time *)

\* positions and velocities along one axis
VarPoints == {p \in IndexPoints : p[2] = 0 /\ p[3] = 0}

VarConfigs ==
    {[type_count |-> 1, behaviours |-> (0 :> Attract)],
     [type_count |-> 1, behaviours |-> (0 :> Repel)]}

\* pops counted up to here
PopCap == MaxSteps + 2

VarInit ==
    /\ cfg \in VarConfigs
    /\ \E count \in 1..NIdx :
           \E points \in [0..(count - 1) -> VarPoints], vels \in [0..(count - 1) -> VarPoints] :
               state = [NewUniformCube(cfg, points) EXCEPT !.vel = vels]
    /\ \E dt \in 1..MaxVarDt, max_steps \in 0..MaxSteps :
           newton = [dt |-> dt, damping |-> DampUnit - 1, max_steps |-> max_steps]
    /\ panicked = FALSE
    /\ vd = [phase |-> "idle", time |-> <<>>, pq |-> <<>>,
             pops |-> [i \in DOMAIN state.pos |-> 0]]
    /\ client = NoClient
    /\ hist = [op |-> "none"]

\* lines 82-87: the times zeroed, the queue filled with every particle's
\* first step
VarStart ==
    /\ vd.phase = "idle"
    /\ LET len == Cardinality(DOMAIN state.pos)
           time == [i \in DOMAIN state.pos |-> 0]
       IN  vd' = [vd EXCEPT !.phase = "loop",
                            !.time = time,
                            !.pq = [n \in 1..len |->
                                       <<calculate_delta_time(state, time, n - 1, 0, newton), n - 1>>]]
    /\ hist' = [op |-> "start"]
    /\ UNCHANGED <<state, cfg, newton, panicked, client>>

\* lines 89-115: one iteration of the while loop
VarPop ==
    /\ vd.phase = "loop"
    /\ ~panicked
    /\ \E k \in HeapTop(vd.pq) :
         \E e \in {VarEvent(state, cfg, newton, vd.time, vd.pq[k][1], vd.pq[k][2])} :
           LET next_time == vd.pq[k][1]
               idx == vd.pq[k][2]
           IN  /\ state' = e.st
               /\ panicked' = ~e.ok
               /\ vd' = [vd EXCEPT !.time = e.time,
                                   !.pq = RemoveAt(vd.pq, k) \o e.push,
                                   !.pops[idx] = IF @ < PopCap THEN @ + 1 ELSE @]
               /\ hist' = [op |-> "pop", idx |-> idx, next_time |-> next_time,
                           now |-> e.now, dt |-> e.dt,
                           queued |-> {vd.pq[m][1] : m \in 1..Len(vd.pq)},
                           push |-> e.push,
                           prev_time |-> IF hist.op = "pop" THEN hist.next_time ELSE 0]
    /\ UNCHANGED <<cfg, newton, client>>

\* lines 117-120: the queue is empty, every velocity is damped
VarReturn ==
    /\ vd.phase = "loop"
    /\ ~panicked
    /\ vd.pq = <<>>
    /\ state' = [state EXCEPT !.vel = [i \in DOMAIN state.vel |->
                                          Dampen(state.vel[i], newton.damping)]]
    /\ vd' = [vd EXCEPT !.phase = "done"]
    /\ hist' = [op |-> "return"]
    /\ UNCHANGED <<cfg, newton, panicked, client>>

VarNext == VarStart \/ VarPop \/ VarReturn

SpecVar == VarInit /\ [][VarNext]_vars

-----------------------------------------------------------------------------
(* Sim::new, then calls of Sim::step *)

\* Vec2 positions (the third coordinate stays 0), here spawned along one axis
McPoints == {p \in IndexPoints : p[2] = 0 /\ p[3] = 0}

\* one particle type with one potential
McRules == (0 :> (0 :> [attract |-> 2, repulse |-> 1]))

McInit ==
    /\ \E temperature \in 1..MaxTemp :
           cfg = [rules |-> McRules, temperature |-> temperature, walk_sigma |-> 1]
    /\ \E n \in 1..NIdx, accel_radius \in 1..MaxRadius :
           \E positions \in [0..(n - 1) -> McPoints] :
               state = [pos |-> positions,
                        vel |-> [i \in 0..(n - 1) |-> ZERO],
                        accel |-> [i \in 0..(n - 1) |-> ZERO],
                        colors |-> [i \in 0..(n - 1) |-> 0],
                        query |-> QueryAcceleratorNew(positions, accel_radius)]
    /\ newton = NoNewton
    /\ panicked = FALSE
    /\ vd = NoLoop
    /\ client = NoClient
    /\ hist = [op |-> "new", steps |-> 0]

\* Sim::step
McStep ==
    /\ ~panicked
    /\ hist.steps < MaxMcSteps
    /\ \E idx \in DOMAIN state.pos, draw \in DrawRange :
         \E dx \in (-cfg.walk_sigma)..cfg.walk_sigma, dy \in (-cfg.walk_sigma)..cfg.walk_sigma :
           \E e \in {SimStep(state, cfg, idx, dx, dy, draw)} :
               /\ state' = e.st
               /\ panicked' = ~e.ok
               /\ hist' = [op |-> "step", steps |-> hist.steps + 1, idx |-> idx,
                           original |-> e.original, candidate |-> e.candidate,
                           delta_e |-> e.delta_e, draw |-> draw,
                           accepted |-> e.accepted]
    /\ UNCHANGED <<cfg, newton, vd, client>>

McNext == McStep

SpecMcmc == McInit /\ [][McNext]_vars

-----------------------------------------------------------------------------
(* Behaviour::force alone: a behaviour, then evaluations at distances *)

\* the behaviour (1, 0.25, 3, 0.75): distances in steps of 1/40, forces in
\* steps of 1/2
ForceExample == [default_repulse |-> 2, inter_threshold |-> 10,
                 inter_strength |-> 6, inter_max_dist |-> 30]

ForceBehaviours ==
    {b \in [default_repulse : {1, 2}, inter_threshold : {2, 4, 10},
            inter_strength : {-2, 3, 6}, inter_max_dist : {4, 8, 30}] :
        b.inter_threshold < b.inter_max_dist}

ForceInit ==
    /\ \E b \in ForceBehaviours : cfg = [type_count |-> 1, behaviours |-> (0 :> b)]
    /\ state = [pos |-> <<>>]
    /\ newton = NoNewton
    /\ panicked = FALSE
    /\ vd = NoLoop
    /\ client = NoClient
    /\ hist = [op |-> "none"]

\* behav.force(dist), as total_force calls it
ForceCall ==
    /\ \E dist \in 0..MaxForceDist :
           hist' = [op |-> "force", dist |-> dist,
                    value |-> force(get_behaviour(cfg, 0, 0), dist)]
    /\ UNCHANGED <<state, cfg, newton, panicked, vd, client>>

ForceNext == ForceCall

SpecForce == ForceInit /\ [][ForceNext]_vars

-----------------------------------------------------------------------------
(* The Monte-Carlo integrator as ClientState::update calls it *)

\* the displacements a walk of deviation sigma proposes (bounded to the grid
\* points within sigma of the start)
Walk(sigma) ==
    {d \in [Axes -> (-sigma)..sigma] : Abs(d[1]) + Abs(d[2]) + Abs(d[3]) <= sigma}

\* one Metropolis iteration from outcome s: a particle, a candidate (shifted
\* along the local force in the pseudo-Newtonian variant), and the draw that
\* accepts or rejects it; on acceptance the position is committed and the
\* index patched
McmcIteration(s, c, mc, pseudo) ==
    IF ~s.ok THEN {s}
    ELSE {LET original == s.st.pos[idx]
              bias == IF pseudo
                      THEN VScale(total_force(idx, s.st, c), mc.walk_sigma)
                      ELSE ZERO
              candidate == VAdd(VAdd(original, bias), d)
              r == replace_point(s.st.query, idx, original, candidate)
          IN  IF accept
              THEN [st |-> [s.st EXCEPT !.pos[idx] = candidate, !.query = r.query],
                    ok |-> r.ok]
              ELSE s
          : idx \in DOMAIN s.st.pos, d \in Walk(mc.walk_sigma), accept \in BOOLEAN}

RECURSIVE McmcLoop(_, _, _, _, _)
McmcLoop(outs, n, c, mc, pseudo) ==
    IF n = 0 THEN outs
    ELSE McmcLoop(UNION {McmcIteration(s, c, mc, pseudo) : s \in outs}, n - 1, c, mc, pseudo)

\* mcmc_step: substeps iterations; the set of states it can leave
mcmc_step(st, c, mc, pseudo) ==
    McmcLoop({[st |-> st, ok |-> TRUE]}, mc.substeps, c, mc, pseudo)

-----------------------------------------------------------------------------
(* client.rs: ClientState, update and update_ui *)

project_to_2d(st) ==
    [st EXCEPT !.pos = [i \in DOMAIN st.pos |-> [st.pos[i] EXCEPT ![2] = 0]]]

\* where particles are spawned in the client specification
SpawnPoints == {p \in IndexPoints : p[2] = 0 /\ p[3] = 0 /\ p[1] >= 0}

\* SimConfig::random for one type
ClientConfigs == {[type_count |-> 1, behaviours |-> (0 :> Attract)]}

\* the values a drag of a distance field is set to
EditValues == {Attract.inter_threshold, Attract.inter_max_dist}

Integrators == {"Newton", "MonteCarlo", "Mixed", "PseudoNewtonian"}

\* ClientState::new
ClientInit ==
    /\ cfg \in ClientConfigs
    /\ \E points \in [0..(NIdx - 1) -> SpawnPoints] : state = NewUniformCube(cfg, points)
    /\ newton = [dt |-> 1, damping |-> 0, max_steps |-> 0]
    /\ panicked = FALSE
    /\ vd = NoLoop
    /\ client = [pause |-> FALSE, integrator |-> "Newton", constrain_2d |-> FALSE,
                 particle_count |-> NIdx,
                 mcmc |-> [substeps |-> 1, temperature |-> 1, walk_sigma |-> 1]]
    /\ hist = [op |-> "new", frames |-> 0, ui |-> 0, steady |-> FALSE,
               prev_query |-> state.query, start_query |-> state.query]

\* the index rebuilt only when the radius or the population differs from what
\* the index was built for
UpdateRebuild_OnChange(st, c) ==
    IF \/ st.query.radius # max_interaction_radius(c)
       \/ UNION {{st.query.cells[key][n] : n \in 1..Len(st.query.cells[key])}
                    : key \in DOMAIN st.query.cells} # DOMAIN st.pos
    THEN [st EXCEPT !.query = QueryAcceleratorNew(st.pos, max_interaction_radius(c))]
    ELSE st

\* the index built anew from the positions at the radius the old index had
UpdateRebuild_OldRadius(st, c) ==
    [st EXCEPT !.query = QueryAcceleratorNew(st.pos, st.query.radius)]

\* update, lines 356-357: the index is built anew from the positions
UpdateRebuild(st, c) ==
    [st EXCEPT !.query = QueryAcceleratorNew(st.pos, max_interaction_radius(c))]

\* an update that steps without looking at pause
UpdateStep_IgnorePause(st, c, nw, cl) ==
    {[st |-> newton_step(st, c, nw), ok |-> TRUE]}

\* update, lines 359-371: the integrator chosen, unless paused
UpdateStep(st, c, nw, cl) ==
    IF cl.pause THEN {[st |-> st, ok |-> TRUE]}
    ELSE CASE cl.integrator = "Newton" -> {[st |-> newton_step(st, c, nw), ok |-> TRUE]}
           [] cl.integrator = "MonteCarlo" -> mcmc_step(st, c, cl.mcmc, FALSE)
           [] cl.integrator = "PseudoNewtonian" -> mcmc_step(st, c, cl.mcmc, TRUE)
           [] cl.integrator = "Mixed" ->
                  {IF m.ok THEN [st |-> newton_step(m.st, c, nw), ok |-> TRUE] ELSE m
                      : m \in mcmc_step(st, c, cl.mcmc, FALSE)}

\* ClientState::update, one frame
Update ==
    /\ ~panicked
    /\ hist.frames < MaxFrames
    /\ LET st1 == UpdateRebuild(state, cfg)
       IN  \E out \in UpdateStep(st1, cfg, newton, client) :
               /\ state' = out.st
               /\ panicked' = ~out.ok
               /\ hist' = [op |-> "update", frames |-> hist.frames + 1, ui |-> hist.ui,
                           steady |-> hist.op = "update",
                           prev_query |-> state.query, start_query |-> st1.query]
    /\ UNCHANGED <<cfg, newton, vd, client>>

\* ClientState::update_ui with one widget used: the config and client fields
\* as the widgets leave them, then project_to_2d while constrain_2d is set,
\* the index rebuilt when a Monte-Carlo, Mixed or Pseudo-Newtonian button was
\* clicked, and the population replaced when a reset was asked for
UpdateUi(cfg1, client1, reset_particles, reset_accel) ==
    /\ ~panicked
    /\ hist.ui < MaxUi
    /\ LET st1 == IF client1.constrain_2d THEN project_to_2d(state) ELSE state
           st2 == IF reset_accel
                  THEN [st1 EXCEPT !.query =
                           QueryAcceleratorNew(st1.pos, max_interaction_radius(cfg1))]
                  ELSE st1
       IN  IF reset_particles
           THEN \E points \in [0..(client1.particle_count - 1) -> SpawnPoints] :
                    state' = NewUniformCube(cfg1, points)
           ELSE state' = st2
    /\ cfg' = cfg1
    /\ client' = client1
    /\ hist' = [op |-> "update_ui", frames |-> hist.frames, ui |-> hist.ui + 1,
                steady |-> FALSE,
                prev_query |-> state'.query, start_query |-> state'.query]
    /\ UNCHANGED <<newton, panicked, vd>>

\* config_ui: a distance field of a behaviour dragged to a value
UiEditThreshold ==
    \E n \in DOMAIN cfg.behaviours, v \in EditValues :
        UpdateUi([cfg EXCEPT !.behaviours[n].inter_threshold = v], client, FALSE, FALSE)

UiEditMaxDist ==
    \E n \in DOMAIN cfg.behaviours, v \in EditValues :
        UpdateUi([cfg EXCEPT !.behaviours[n].inter_max_dist = v], client, FALSE, FALSE)

UiRandomize == \E c \in ClientConfigs : UpdateUi(c, client, TRUE, FALSE)

UiConstrain2d ==
    UpdateUi(cfg, [client EXCEPT !.constrain_2d = ~@], FALSE, FALSE)

UiPause == UpdateUi(cfg, [client EXCEPT !.pause = ~@], FALSE, FALSE)

UiResetParticles == UpdateUi(cfg, client, TRUE, FALSE)

UiParticleCount ==
    \E n \in 1..NIdx : UpdateUi(cfg, [client EXCEPT !.particle_count = n], FALSE, FALSE)

UiIntegrator ==
    \E which \in Integrators :
        UpdateUi(cfg, [client EXCEPT !.integrator = which], FALSE, which # "Newton")

\* a widget that changes nothing here (Debug, a colour)
UiOther == UpdateUi(cfg, client, FALSE, FALSE)

ClientNext ==
    \/ Update
    \/ UiEditThreshold
    \/ UiEditMaxDist
    \/ UiRandomize
    \/ UiConstrain2d
    \/ UiPause
    \/ UiResetParticles
    \/ UiParticleCount
    \/ UiIntegrator
    \/ UiOther

SpecClient == ClientInit /\ [][ClientNext]_vars

-----------------------------------------------------------------------------
(* Claims about the index *)

Range(seq) == {seq[n] : n \in 1..Len(seq)}

\* the places (cell, slot) at which index i is listed
Listed(q, i) ==
    {place \in UNION {{key} \X (1..Len(q.cells[key])) : key \in DOMAIN q.cells} :
        q.cells[place[1]][place[2]] = i}

\* key is the cell whose box holds p: key*radius <= p < (key+1)*radius on every axis
\* (a NaN coordinate is cast to cell 0)
HoldsPoint(key, p, radius) ==
    \A k \in Axes :
        IF IsNaN(p[k]) THEN key[k] = 0
        ELSE key[k] * radius <= p[k] /\ p[k] < (key[k] + 1) * radius

\* every particle is listed once, in the cell of its position
IndexConsistent(q, points) ==
    \A i \in DOMAIN points :
        /\ Cardinality(Listed(q, i)) = 1
        /\ \A place \in Listed(q, i) : HoldsPoint(place[1], points[i], q.radius)

\* C1: after QueryAccelerator::new and after any sequence of replace_point
\* calls that name the cell the particle is listed in, every particle index is
\* listed exactly once over all cells, in the cell floor(position / radius).
C1_IndexPartition == ~panicked => IndexConsistent(state.query, state.pos)

\* a relocation across cells into a cell that already had a member has
\* happened, and the cell left behind is still in the map, empty
C1_Witness ==
    /\ hist.op = "replace_point" /\ ~panicked
    /\ ~HoldsPoint(quantize(hist.current, state.query.radius), hist.prev, state.query.radius)
    /\ \E key \in DOMAIN state.query.cells : Len(state.query.cells[key]) = 2
    /\ \E key \in DOMAIN state.query.cells : Len(state.query.cells[key]) = 0

\* the indices within the radius of particle i, by a scan over all points
BruteForce(points, radius, i) ==
    {j \in DOMAIN points \ {i} :
        (points[j][1] - points[i][1]) * (points[j][1] - points[i][1])
      + (points[j][2] - points[i][2]) * (points[j][2] - points[i][2])
      + (points[j][3] - points[i][3]) * (points[j][3] - points[i][3])
      <= radius * radius}

\* C2: on an index consistent with the points, query_neighbors(points, i,
\* points[i]) yields exactly the indices j # i within Euclidean distance
\* radius of points[i], each once.
C2_QueryExact ==
    ~panicked =>
        \A i \in DOMAIN state.pos :
            LET found == query_neighbors(state.query, state.pos, i, state.pos[i])
            IN  /\ Range(found) = BruteForce(state.pos, state.query.radius, i)
                /\ Len(found) = Cardinality(Range(found))

\* after a relocation, a query finds a neighbour in a cell diagonal to its
\* own and below it on one axis
C2_Witness ==
    /\ hist.op = "replace_point" /\ ~panicked
    /\ \E i, j \in DOMAIN state.pos :
           LET ci == quantize(state.pos[i], state.query.radius)
               cj == quantize(state.pos[j], state.query.radius)
           IN  /\ j \in Range(query_neighbors(state.query, state.pos, i, state.pos[i]))
               /\ Cardinality({k \in Axes : ci[k] # cj[k]}) = 2
               /\ \E k \in Axes : cj[k] < ci[k]

\* idx is listed in the cell whose box holds prev
InCellOf(q, idx, prev) ==
    \E key \in DOMAIN q.cells :
        HoldsPoint(key, prev, q.radius) /\ idx \in Range(q.cells[key])

\* C3: replace_point(idx, prev, current) aborts whenever idx is not in the
\* list of the cell prev quantizes to (also when there is no such cell), and
\* then no cell list has been modified.
C3_FailsLoudly ==
    [][(hist'.op = "replace_point" /\ ~InCellOf(state.query, hist'.idx, hist'.prev))
          => (panicked' /\ state'.query = state.query)]_vars

\* a call has aborted because the cell of prev is not in the map
C3_Witness ==
    /\ panicked
    /\ hist.op = "replace_point"
    /\ \A key \in DOMAIN state.query.cells :
           ~HoldsPoint(key, hist.prev, state.query.radius)

\* the cell coordinates tiles() yields
TileKeys(q) == {t[1] : t \in tiles(q)}

\* C23: replace_point never removes a cell from the map: the cell coordinates
\* tiles() yields only grow, a cell whose last member is relocated to another
\* cell stays with an empty list, and the lists of tiles() still hold every
\* particle index once.
C23_CellsOnlyGrow ==
    [][hist'.op = "replace_point" =>
          LET q == state.query
              key == quantize(hist'.prev, q.radius)
          IN  /\ TileKeys(q) \subseteq TileKeys(state'.query)
              /\ (/\ ~panicked'
                  /\ q.cells[key] = <<hist'.idx>>
                  /\ quantize(hist'.current, q.radius) # key)
                     => <<key, <<>>>> \in tiles(state'.query)
              /\ \A t \in tiles(state'.query) : Range(t[2]) \subseteq DOMAIN state'.pos
              /\ \A i \in DOMAIN state'.pos :
                     /\ Cardinality({t \in tiles(state'.query) : i \in Range(t[2])}) = 1
                     /\ \A t \in tiles(state'.query) :
                            Cardinality({n \in 1..Len(t[2]) : t[2][n] = i}) <= 1]_vars

\* tiles() yields more cells than there are particles, one of them empty,
\* after a particle left a cell it was alone in
C23_Witness ==
    /\ hist.op = "replace_point" /\ ~panicked
    /\ Cardinality(TileKeys(state.query)) > NIdx
    /\ <<quantize(hist.prev, state.query.radius), <<>>>> \in tiles(state.query)

-----------------------------------------------------------------------------
(* Claims about the fixed-step integrator *)

\* the step in two phases: every force from the positions before the step,
\* then every update
TwoPhaseStep(st, c, nw) ==
    LET f == [i \in DOMAIN st.pos |-> total_force(i, st, c)]
        v == [i \in DOMAIN st.pos |->
                 Dampen(VAdd(st.vel[i], VScale(f[i], nw.dt)), nw.damping)]
    IN  [st EXCEPT !.vel = v,
                   !.pos = [i \in DOMAIN st.pos |-> VAdd(st.pos[i], VScale(v[i], nw.dt))]]

\* no two particles at the same point
Apart(points) == \A i, j \in DOMAIN points : i # j => points[i] # points[j]

\* C5: within one newton_step every force is computed from the positions all
\* particles had before the step, so the step equals the two-phase step
\* (stated for populations with no two particles at one point).
C5_SnapshotForces ==
    (hist.op = "newton_step" /\ Apart(hist.pre.pos)) =>
        /\ state.pos = TwoPhaseStep(hist.pre, cfg, newton).pos
        /\ state.vel = TwoPhaseStep(hist.pre, cfg, newton).vel

\* C6: when newton_step returns, every particle is listed in the cell of its
\* post-step position (stated for populations with no two particles at one
\* point, before and after the step).
C6_IndexPatched ==
    (hist.op = "newton_step" /\ Apart(hist.pre.pos) /\ Apart(state.pos)) =>
        IndexConsistent(state.query, state.pos)

-----------------------------------------------------------------------------
(* Claims about the frame loop *)

\* q is what a build from points at this radius gives: every particle listed
\* once in the cell of its position, and no cell without a member
Fresh(q, points, radius) ==
    /\ q.radius = radius
    /\ IndexConsistent(q, points)
    /\ \A key \in DOMAIN q.cells : Len(q.cells[key]) > 0

\* C7 (as stated): on a frame of update that follows a frame of update, with
\* no change of radius or population in between, the index is not rebuilt:
\* the integrator starts from the index the previous frame left.
C7_SteadyStateNoRebuild ==
    (hist.op = "update" /\ hist.steady) => hist.start_query = hist.prev_query

\* C7 (amended): every frame of update, a steady-state frame too, rebuilds the
\* index in full before the integrator runs: the index the integrator starts
\* from is the build of the frame's starting positions at the config's
\* maximum interaction radius.
C7_RebuiltEveryFrame ==
    [][hist'.op = "update" =>
          Fresh(hist'.start_query, state.pos, max_interaction_radius(cfg))]_vars

\* a steady-state frame has started from an index that differs from the one
\* the previous frame left
C7_Witness ==
    /\ hist.op = "update" /\ hist.steady
    /\ hist.start_query # hist.prev_query
    /\ hist.start_query.radius = hist.prev_query.radius

\* the particles q lists in a cell where r does not list them
Misplaced(q, r) ==
    {i \in UNION {Range(q.cells[key]) : key \in DOMAIN q.cells} :
        \E key \in DOMAIN q.cells :
            /\ i \in Range(q.cells[key])
            /\ (key \notin DOMAIN r.cells \/ i \notin Range(r.cells[key]))}

\* C22: whenever update invokes an integrator, the index the integrator starts
\* from is the one built in the same call from the current positions at the
\* config's current maximum interaction radius, so it lists every particle in
\* the cell of its position whatever update_ui did before; in the Mixed
\* integrator the index newton_step starts from is consistent as well.
C22_IntegratorStartsFresh ==
    [][(hist'.op = "update" /\ ~client.pause) =>
          LET q == hist'.start_query
          IN  /\ q = QueryAcceleratorNew(state.pos, max_interaction_radius(cfg))
              /\ q.radius = max_interaction_radius(cfg)
              /\ IndexConsistent(q, state.pos)
              /\ client.integrator = "Mixed" =>
                     \A m \in mcmc_step(UpdateRebuild(state, cfg), cfg, client.mcmc, FALSE) :
                         m.ok => IndexConsistent(m.st.query, m.st.pos)]_vars

\* an integrator has run in the frame after update_ui projected the particles
\* to 2D: the index update_ui left listed a particle in a cell off the plane
\* y = 0, the index the integrator started from lists it in the plane
C22_Witness ==
    /\ hist.op = "update" /\ ~hist.steady
    /\ ~client.pause /\ client.constrain_2d
    /\ hist.prev_query.radius = hist.start_query.radius
    /\ \A key \in DOMAIN hist.start_query.cells : key[2] = 0
    /\ \E i \in Misplaced(hist.start_query, hist.prev_query) :
           \E key \in DOMAIN hist.prev_query.cells :
               key[2] # 0 /\ i \in Range(hist.prev_query.cells[key])

\* C17: in the force summation a neighbour at distance zero contributes no
\* force (the zero direction is special-cased, not normalized), so the summed
\* force on every particle is a defined vector for every configuration of
\* defined positions, coincident particles included.
C17_ForceDefined ==
    (hist.op = "newton_step" /\ \A i \in DOMAIN hist.pre.pos : ~VIsNaN(hist.pre.pos[i])) =>
        \A i \in DOMAIN state.pos :
            ~VIsNaN(total_force(i, hist.pre, cfg)) /\ ~VIsNaN(state.vel[i])

\* C19: a frame of update with pause set leaves every particle's position,
\* velocity and type unchanged and leaves the index consistent with those
\* positions.
C19_PausedFrame ==
    [][(hist'.op = "update" /\ client.pause) =>
          /\ state'.pos = state.pos
          /\ state'.vel = state.vel
          /\ state'.colors = state.colors
          /\ IndexConsistent(state'.query, state'.pos)]_vars

\* a paused frame has run after a stepped frame and has replaced the index
\* that frame left
C19_Witness ==
    /\ hist.op = "update" /\ client.pause
    /\ hist.frames = MaxFrames
    /\ state.query # hist.prev_query
    /\ \E i \in DOMAIN state.vel : state.vel[i] # ZERO /\ ~VIsNaN(state.vel[i])

\* C15: every behaviour the simulation steps with satisfies
\* 0 <= inter_threshold <= inter_max_dist, after any sequence of config_ui
\* edits: an edit that would break it is rejected, not stored.
C15_ValidBehaviours ==
    hist.op = "update" =>
        \A n \in DOMAIN cfg.behaviours :
            /\ 0 <= cfg.behaviours[n].inter_threshold
            /\ cfg.behaviours[n].inter_threshold <= cfg.behaviours[n].inter_max_dist

-----------------------------------------------------------------------------
(* Claims about the variable-step integrator *)

\* C4: for any population, any frame dt > 0 and any max_steps >= 1 the loop
\* of newton_step_variable_dt terminates, and no particle is popped more than
\* frame_dt / min_dt = max_steps times in one call (here: the bound on pops).
C4_AtMostMaxSteps ==
    newton.max_steps >= 1 =>
        \A i \in DOMAIN vd.pops : vd.pops[i] <= newton.max_steps

\* C8: every popped time is clamped to the frame's dt before use: each
\* particle's last update time is at most dt throughout the loop, and the
\* step of an event, global_time - time[idx], is never negative.
C8_ClampedTimes ==
    /\ vd.phase # "idle" => \A i \in DOMAIN vd.time : FLe(vd.time[i], newton.dt)
    /\ hist.op = "pop" => FLe(0, hist.dt) /\ FLe(hist.now, newton.dt)

\* an entry scheduled past the frame boundary has been popped and used at dt
C8_Witness ==
    /\ hist.op = "pop"
    /\ hist.next_time > newton.dt
    /\ hist.now = newton.dt
    /\ hist.dt > 0

\* C9: one call with dt > 0 and max_steps >= 1 advances every particle by one
\* frame: when it returns, every particle's last update time equals dt, and
\* every particle has been processed.
C9_WholeFrame ==
    (vd.phase = "done" /\ newton.dt > 0 /\ newton.max_steps >= 1) =>
        \A i \in DOMAIN vd.time : vd.time[i] = newton.dt /\ vd.pops[i] >= 1

\* a call has returned after two particles took different numbers of steps
C9_Witness ==
    /\ vd.phase = "done" /\ newton.max_steps >= 1
    /\ \E i, j \in DOMAIN vd.pops : 1 < vd.pops[i] /\ vd.pops[i] < vd.pops[j]

\* C10: the queue is a min-heap on the scheduled time: a pop returns an entry
\* whose time is least among the queued ones, and the times of the events
\* processed in one call never decrease.
C10_MinHeap ==
    hist.op = "pop" =>
        /\ \A t \in hist.queued : FLe(hist.next_time, t)
        /\ FLe(hist.prev_time, hist.next_time)

\* a pop has chosen among entries with different times, after an earlier pop
\* at a smaller time
C10_Witness ==
    /\ hist.op = "pop"
    /\ \E t \in hist.queued : t > hist.next_time
    /\ 0 < hist.prev_time /\ hist.prev_time < hist.next_time

\* C16: max_steps is validated to be at least 1 before the variable-step
\* integrator uses it: no config with max_steps = 0 reaches min_dt or
\* newton_step_variable_dt, so with dt > 0 min_dt is finite.
C16_MaxStepsValidated ==
    (vd.phase # "idle" /\ newton.dt > 0) =>
        newton.max_steps >= 1 /\ min_dt(newton) < Inf

EntriesOf(pq, i) == {n \in 1..Len(pq) : pq[n][2] = i}

\* C21: between iterations of the loop of newton_step_variable_dt the queue
\* holds exactly one entry for each particle whose last processed time is
\* below the frame's dt and none for a particle processed at the boundary.
C21_OneEntryEach ==
    (vd.phase = "loop" /\ ~panicked /\ newton.dt > 0) =>
        \A i \in DOMAIN state.pos :
            Cardinality(EntriesOf(vd.pq, i)) =
                IF FLt(vd.time[i], newton.dt) THEN 1 ELSE 0

\* one particle has been processed short of the boundary and is queued again
\* while another has reached the boundary and has left the queue
C21_Witness ==
    /\ vd.phase = "loop" /\ ~panicked
    /\ hist.op = "pop"
    /\ \E i, j \in DOMAIN state.pos :
           /\ 0 < vd.time[i] /\ vd.time[i] < newton.dt
           /\ Cardinality(EntriesOf(vd.pq, i)) = 1
           /\ vd.time[j] = newton.dt
           /\ EntriesOf(vd.pq, j) = {}

\* C11: an event of newton_step_variable_dt integrates particle idx over its
\* step dt by position += velocity*dt + last_acceleration*dt^2/2 and
\* velocity += (last_acceleration + new_acceleration)*dt/2, nothing else
\* being added to the velocity; afterwards the stored acceleration is the new
\* one and the stored time is the clamped scheduled time.
C11_LeapfrogEvent ==
    [][(hist'.op = "pop" /\ ~panicked') =>
          LET idx == hist'.idx
              dt == hist'.dt
              new_accel == total_force_extrapolate(idx, state, cfg, vd.time, hist'.now)
          IN  /\ state'.pos[idx] =
                     VAdd(VAdd(state.pos[idx], VScale(state.vel[idx], dt)),
                          VDivScalar(VScale(state.accel[idx], FMul(dt, dt)), 2))
              /\ state'.vel[idx] =
                     VAdd(state.vel[idx],
                          VDivScalar(VScale(VAdd(state.accel[idx], new_accel), dt), 2))
              /\ state'.accel[idx] = new_accel
              /\ vd'.time[idx] = FMin(hist'.next_time, newton.dt)]_vars

\* the step the claim describes for particle idx: over the neighbours whose
\* velocity differs from idx's, the least distance / relative speed, not
\* below min_dt
RECURSIVE RelativeLoop(_, _, _, _, _)
RelativeLoop(st, idx, found, n, best) ==
    IF n > Len(found) THEN best
    ELSE LET j == found[n]
             distance_sq == distance_squared(st.pos[j], st.pos[idx])
             rel_vel_sq == distance_squared(st.vel[j], st.vel[idx])
             dt == FSqrt(FDiv(distance_sq, rel_vel_sq))
             next == IF FLt(0, rel_vel_sq) /\ ~(best.some /\ FLt(best.dt, dt))
                     THEN [some |-> TRUE, dt |-> dt]
                     ELSE best
         IN  RelativeLoop(st, idx, found, n + 1, next)

RelativeDeltaTime(st, idx, nw) ==
    LET best == RelativeLoop(st, idx, query_neighbors(st.query, st.pos, idx, st.pos[idx]),
                             1, [some |-> FALSE, dt |-> 0])
    IN  FMax(IF best.some THEN best.dt ELSE min_dt(nw), min_dt(nw))

\* C12: calculate_delta_time takes, for each neighbour j, the time for idx and
\* j to close their distance at their relative velocity (distance of the two
\* positions over the magnitude of the difference of the two velocities), and
\* the least of these over the neighbours (stated for the first steps, which
\* are computed at time 0 where every particle is at its own time).
C12_RelativeVelocity ==
    hist.op = "start" =>
        \A n \in 1..Len(vd.pq) :
            vd.pq[n][1] = RelativeDeltaTime(state, vd.pq[n][2], newton)

-----------------------------------------------------------------------------
(* Claims about the Monte-Carlo integrator *)

\* C13: an iteration of Sim::step has one of two outcomes: accepted, the
\* chosen particle's position becomes the candidate and the index is patched
\* with replace_point(idx, original, candidate); rejected, positions and index
\* are unchanged.  Either way no other particle moves and every index is
\* listed in the cell of its position.
C13_AcceptOrReject ==
    [][hist'.op = "step" =>
          /\ \/ /\ hist'.accepted
                /\ ~panicked'
                /\ state'.pos = [state.pos EXCEPT ![hist'.idx] = hist'.candidate]
                /\ state'.query =
                       replace_point(state.query, hist'.idx, hist'.original,
                                     hist'.candidate).query
             \/ /\ ~hist'.accepted
                /\ state'.pos = state.pos
                /\ state'.query = state.query
          /\ IndexConsistent(state'.query, state'.pos)]_vars

\* a second step has been accepted and has moved its particle to another
\* cell, next to a particle that stayed
C13_Witness ==
    /\ hist.op = "step" /\ hist.steps = MaxMcSteps /\ hist.accepted
    /\ quantize(hist.original, state.query.radius) # quantize(hist.candidate, state.query.radius)
    /\ Cardinality(DOMAIN state.pos) > 1

\* C14: a proposal with delta_e <= 0 at a temperature > 0, whose ratio
\* exp(-delta_e / temperature) is at least 1, is accepted whatever value the
\* uniform draw takes.
C14_DownhillAccepted ==
    (hist.op = "step" /\ cfg.temperature > 0 /\ FLe(hist.delta_e, 0)) => hist.accepted

-----------------------------------------------------------------------------
(* Claims about the force law *)

\* v is the grid value nearest to num / den (den > 0)
Nearest(v, num, den) == 2 * Abs(v * den - num) <= den

\* C18: Force(dist) is piecewise linear: below inter_threshold a ramp from
\* -default_repulse at 0 to 0 at inter_threshold; from inter_threshold to
\* inter_max_dist a tent that is 0 at both ends and +inter_strength at the
\* midpoint; 0 beyond inter_max_dist.  For (1, 0.25, 3, 0.75): Force(0) = -1,
\* Force(0.25) = 0, Force(0.375) = 1.5, Force(0.5) = 3, Force(0.75) = 0,
\* Force(0.85) = 0.
C18_PiecewiseForce ==
    hist.op = "force" =>
        LET b == cfg.behaviours[0]
            d == hist.dist
            v == hist.value
            t == b.inter_threshold
            m == b.inter_max_dist
        IN  /\ d < t => Nearest(v, -(b.default_repulse * (t - d)), t)
            /\ d = 0 => v = -b.default_repulse
            /\ (d = t \/ d = m) => v = 0
            /\ (t <= d /\ 2 * d <= t + m) => Nearest(v, 2 * (d - t) * b.inter_strength, m - t)
            /\ (d <= m /\ 2 * d >= t + m) => Nearest(v, 2 * (m - d) * b.inter_strength, m - t)
            /\ 2 * d = t + m => v = b.inter_strength
            /\ d > m => v = 0
            /\ b = ForceExample =>
                   /\ d = 0 => v = -2
                   /\ d = 10 => v = 0
                   /\ d = 15 => v = 3
                   /\ d = 20 => v = 6
                   /\ d = 30 => v = 0
                   /\ d = 34 => v = 0

\* the example behaviour has been evaluated on the falling side of its tent
C18_Witness ==
    /\ hist.op = "force"
    /\ cfg.behaviours[0] = ForceExample
    /\ hist.dist = 25 /\ hist.value = 3

====
